---- MODULE Spec2Model ----
(***************************************************************************)
(* Model of claims_agent.py: the FNOL extraction / validation / routing    *)
(* pipeline (normalize, extract_field, parse_currency,                     *)
(* detect_inconsistencies, recommend_route, process_document).             *)
(*                                                                         *)
(* Text is a sequence of atoms.  An atom is a string standing for a run of *)
(* characters of the document: a single digit, a single punctuation or     *)
(* whitespace character, or a run of letters.  The documents drawn by Init *)
(* are cut into atoms so that every literal of a pattern of FIELD_PATTERNS *)
(* that occurs in the document occurs as whole atoms; on such text a       *)
(* regular expression matches atom by atom exactly as it matches character *)
(* by character.                                                           *)
(***************************************************************************)
EXTENDS Integers, Sequences, FiniteSets, TLC

(***************************************************************************)
(* Character classes of Python's re module, on atoms.                      *)
(***************************************************************************)
NL == "\n"
CR == "\r"
TAB == "\t"

\* \s
IsSpace(a) == a \in {" ", NL, CR, TAB}

\* [0-9]
IsDigit(a) == a \in {"0", "1", "2", "3", "4", "5", "6", "7", "8", "9"}

Punct == {":", "-", ".", ",", "#", "/", "$", "@", "!"}

\* \w : digits and runs of letters
IsWordAtom(a) == ~IsSpace(a) /\ a \notin Punct

\* str.lower(), and re.IGNORECASE, on the atoms that carry an upper-case letter
LowerMap ==
    ("Policy" :> "policy") @@ ("Number" :> "number") @@ ("No" :> "no") @@
    ("Policyholder" :> "policyholder") @@ ("Name" :> "name") @@
    ("Insured" :> "insured") @@ ("Effective" :> "effective") @@
    ("Dates" :> "dates") @@ ("Period" :> "period") @@
    ("Incident" :> "incident") @@ ("Loss" :> "loss") @@ ("Date" :> "date") @@
    ("Time" :> "time") @@ ("Location" :> "location") @@
    ("Description" :> "description") @@ ("Claimant" :> "claimant") @@
    ("Third" :> "third") @@ ("Parties" :> "parties") @@
    ("Contact" :> "contact") @@ ("Details" :> "details") @@
    ("Phone" :> "phone") @@ ("Email" :> "email") @@ ("Asset" :> "asset") @@
    ("Type" :> "type") @@ ("ID" :> "id") @@ ("Vehicle" :> "vehicle") @@
    ("VIN" :> "vin") @@ ("Registration" :> "registration") @@
    ("Estimated" :> "estimated") @@ ("Damage" :> "damage") @@
    ("Claim" :> "claim") @@ ("Attachments" :> "attachments") @@
    ("Initial" :> "initial") @@ ("Estimate" :> "estimate") @@
    ("Injury" :> "injury") @@ ("INJURY" :> "injury") @@ ("Auto" :> "auto") @@
    ("Fraud" :> "fraud") @@ ("Staged" :> "staged") @@ ("N" :> "n") @@
    ("A" :> "a") @@ ("None" :> "none") @@ ("NONE" :> "none") @@
    ("ABC" :> "abc") @@ ("John" :> "john") @@ ("Doe" :> "doe") @@
    ("Jane" :> "jane") @@ ("Roe" :> "roe") @@ ("Main" :> "main") @@
    ("Street" :> "street") @@ ("Rear" :> "rear") @@ ("Car" :> "car") @@
    ("Truck" :> "truck") @@ ("XY" :> "xy") @@ ("May" :> "may") @@
    ("USD" :> "usd") @@ ("TBD" :> "tbd") @@ ("Tele" :> "tele")

UpperAtoms == DOMAIN LowerMap

Lower(a) == IF a \in UpperAtoms THEN LowerMap[a] ELSE a

\* a function on 1..n as a sequence value, computed once
AsSeq(f) == <<>> \o f

LowerSeq(s) == AsSeq([i \in 1..Len(s) |-> Lower(s[i])])

\* the characters of a sequence of atoms, as one string
RECURSIVE Str(_)
Str(s) == IF s = <<>> THEN "" ELSE Head(s) \o Str(Tail(s))

(***************************************************************************)
(* FIELD_PATTERNS.  A pattern is the regular expression                    *)
(*     <prefix> \s* [:\-] \s* ( <capture> )                                *)
(* given as the branches of its prefix in the order the regex engine tries *)
(* them (an optional group: each alternative, then the group left out) and *)
(* the kind of its capture group:                                          *)
(*     "line"  ([^\n]+)                                                    *)
(*     "code"  ([A-Z0-9\-]+)                                               *)
(*     "desc"  ([\s\S]+?)(?:\n\w[\w\s]*:|$)                                *)
(* A branch is a sequence of items: Lit(S) matches one atom whose lower    *)
(* case is in S, WS matches \s*.                                           *)
(***************************************************************************)
Lit(S) == [k |-> "lit", s |-> S]
WS == [k |-> "ws", s |-> {}]
SEP == Lit({":", "-"})

\* w1 \s* [:\-]
P1(w1) == <<Lit(w1), WS, SEP>>
\* w1 \s* w2 \s* [:\-]
P2(w1, w2) == <<Lit(w1), WS, Lit(w2), WS, SEP>>
\* w1 \s* w2 w3 \s* [:\-]     (w3 follows w2 directly, as the \.? of no\.?)
P3(w1, w2, w3) == <<Lit(w1), WS, Lit(w2), Lit(w3), WS, SEP>>

Pat(branches, cap) == [branches |-> branches, cap |-> cap]

FIELD_ORDER ==
    <<"policyNumber", "policyholderName", "effectiveDates", "incidentDate",
      "incidentTime", "incidentLocation", "incidentDescription", "claimant",
      "thirdParties", "contactDetails", "assetType", "assetId",
      "estimatedDamage", "claimType", "attachments", "initialEstimate">>

FIELD_PATTERNS ==
    [policyNumber |->
        <<Pat(<<P2({"policy"}, {"number"}), P3({"policy"}, {"no"}, {"."}),
                P2({"policy"}, {"no"}), P2({"policy"}, {"#"}),
                P1({"policy"})>>, "code")>>,
     policyholderName |->
        <<Pat(<<P2({"policyholder"}, {"name"})>>, "line"),
          Pat(<<P2({"insured"}, {"name"})>>, "line")>>,
     effectiveDates |->
        <<Pat(<<P2({"effective"}, {"dates", "date"})>>, "line"),
          Pat(<<P2({"policy"}, {"period"})>>, "line")>>,
     incidentDate |-> <<Pat(<<P2({"incident", "loss"}, {"date"})>>, "line")>>,
     incidentTime |-> <<Pat(<<P2({"incident", "loss"}, {"time"})>>, "line")>>,
     incidentLocation |->
        <<Pat(<<P2({"incident", "loss"}, {"location"})>>, "line")>>,
     incidentDescription |->
        <<Pat(<<P2({"incident", "loss"}, {"description"})>>, "desc"),
          Pat(<<P1({"description"})>>, "desc")>>,
     claimant |-> <<Pat(<<P1({"claimant"})>>, "line")>>,
     thirdParties |-> <<Pat(<<P2({"third"}, {"party", "parties"})>>, "line")>>,
     contactDetails |->
        <<Pat(<<P2({"contact"}, {"details", "detail"})>>, "line"),
          Pat(<<P1({"phone"})>>, "line"),
          Pat(<<P1({"email"})>>, "line")>>,
     assetType |->
        <<Pat(<<P2({"asset"}, {"type"})>>, "line"),
          Pat(<<P2({"vehicle"}, {"type"})>>, "line")>>,
     assetId |->
        <<Pat(<<P2({"asset"}, {"id"})>>, "line"),
          Pat(<<P1({"vin"})>>, "line"),
          Pat(<<P3({"registration"}, {"no"}, {"."}),
                P2({"registration"}, {"no"}),
                P2({"registration"}, {"number"}),
                P1({"registration"})>>, "line")>>,
     estimatedDamage |-> <<Pat(<<P2({"estimated"}, {"damage"})>>, "line")>>,
     claimType |-> <<Pat(<<P2({"claim"}, {"type"})>>, "line")>>,
     attachments |-> <<Pat(<<P1({"attachments", "attachment"})>>, "line")>>,
     initialEstimate |-> <<Pat(<<P2({"initial"}, {"estimate"})>>, "line")>>]

MANDATORY_FIELDS ==
    <<"policyNumber", "policyholderName", "effectiveDates", "incidentDate",
      "incidentTime", "incidentLocation", "incidentDescription", "claimant",
      "contactDetails", "assetType", "assetId", "estimatedDamage",
      "claimType", "attachments", "initialEstimate">>

(***************************************************************************)
(* normalize: re.sub(r"\r\n?", "\n", text)                                 *)
(***************************************************************************)
\* every \r, with the \n that follows it if any, becomes one \n: the \n right
\* after a \r is dropped and the \r itself is rewritten
normalize(t) ==
    LET kept == SelectSeq([i \in 1..Len(t) |-> i],
                          LAMBDA i : ~(t[i] = NL /\ i > 1 /\ t[i - 1] = CR))
    IN AsSeq([j \in 1..Len(kept) |-> IF t[kept[j]] = CR THEN NL ELSE t[kept[j]]])

(***************************************************************************)
(* re.search(pattern, text, re.IGNORECASE) and match.group(1)              *)
(***************************************************************************)
\* the first position from i on that holds no whitespace (greedy \s*)
SkipWs(t, i) ==
    IF \E j \in i..Len(t) : ~IsSpace(t[j])
    THEN CHOOSE j \in i..Len(t) :
            ~IsSpace(t[j]) /\ \A h \in i..(j - 1) : IsSpace(t[h])
    ELSE IF i > Len(t) THEN i ELSE Len(t) + 1

\* the position after the items matched from position i of the lower-cased
\* text lt, 0 when they do not match there
RECURSIVE MatchItems(_, _, _)
MatchItems(lt, i, items) ==
    IF items = <<>> THEN i
    ELSE IF Head(items).k = "ws"
         THEN MatchItems(lt, SkipWs(lt, i), Tail(items))
         ELSE IF i <= Len(lt) /\ lt[i] \in Head(items).s
              THEN MatchItems(lt, i + 1, Tail(items))
              ELSE 0

\* the character classes the capture groups repeat:
\* [^\n], [A-Z0-9\-] under IGNORECASE, [\w\s], [0-9], [0-9,]
InClass(a, cls) ==
    CASE cls = "notnl" -> a # NL
      [] cls = "code" -> IsWordAtom(a) \/ a = "-"
      [] cls = "wordspace" -> IsWordAtom(a) \/ IsSpace(a)
      [] cls = "digit" -> IsDigit(a)
      [] cls = "digitcomma" -> IsDigit(a) \/ a = ","

\* the end (exclusive) of the longest run from i of atoms of the class
RunEnd(t, i, cls) ==
    IF \E j \in i..Len(t) : ~InClass(t[j], cls)
    THEN CHOOSE j \in i..Len(t) :
            ~InClass(t[j], cls) /\ \A h \in i..(j - 1) : InClass(t[h], cls)
    ELSE IF i > Len(t) THEN i ELSE Len(t) + 1

\* (?:\n\w[\w\s]*:|$) at position i: a newline, a word character, word or
\* space characters up to a colon; or the end of the text, which $ also
\* matches just before a final newline
DescTerminator(t, i) ==
    \/ /\ i + 1 <= Len(t)
       /\ t[i] = NL
       /\ IsWordAtom(t[i + 1])
       /\ LET e == RunEnd(t, i + 2, "wordspace")
          IN e <= Len(t) /\ t[e] = ":"
    \/ i = Len(t) + 1
    \/ i = Len(t) /\ t[i] = NL

\* ([\s\S]+?) from k: the least end (exclusive) e > k at which the terminator
\* matches
\* (the terminator matches at the end of the text at the latest)
LazyEnd(t, k) ==
    CHOOSE e \in (k + 1)..(Len(t) + 1) :
        DescTerminator(t, e) /\ \A h \in (k + 1)..(e - 1) : ~DescTerminator(t, h)

\* the capture group matched from position k: <<>> when it does not match
CapAt(t, k, cap) ==
    IF k > Len(t) THEN <<>>
    ELSE IF cap = "line" THEN SubSeq(t, k, RunEnd(t, k, "notnl") - 1)
    ELSE IF cap = "code" THEN SubSeq(t, k, RunEnd(t, k, "code") - 1)
    ELSE SubSeq(t, k, LazyEnd(t, k) - 1)

\* \s*(capture) after position j: the greedy \s* gives whitespace back, one
\* character at a time, until the capture group matches
RECURSIVE BackCap(_, _, _, _)
BackCap(t, j, k, cap) ==
    IF k < j THEN <<>>
    ELSE LET c == CapAt(t, k, cap)
         IN IF c # <<>> THEN c ELSE BackCap(t, j, k - 1, cap)

\* group(1) of the pattern matched at start position i, trying the branches
\* in order; <<>> when the pattern does not match at i
RECURSIVE MatchAt(_, _, _, _, _)
MatchAt(t, lt, i, branches, cap) ==
    IF branches = <<>> THEN <<>>
    ELSE LET j == MatchItems(lt, i, Head(branches))
             c == IF j = 0 THEN <<>> ELSE BackCap(t, j, SkipWs(t, j), cap)
         IN IF c # <<>> THEN c ELSE MatchAt(t, lt, i, Tail(branches), cap)

\* group(1) of the leftmost match; <<>> when re.search returns None (a capture
\* group of these patterns is never empty).  Every branch of a pattern begins
\* with the same literal, so a match starts at an occurrence of it.
SearchFrom(t, lt, pattern) ==
    LET at(i) == MatchAt(t, lt, i, pattern.branches, pattern.cap)
        starts == {i \in 1..Len(t) : lt[i] \in Head(Head(pattern.branches)).s}
        hits == {i \in starts : at(i) # <<>>}
    IN IF hits = {} THEN <<>>
       ELSE at(CHOOSE i \in hits : \A h \in hits : i <= h)

Search(t, pattern) == SearchFrom(t, LowerSeq(t), pattern)

(***************************************************************************)
(* extract_field                                                           *)
(***************************************************************************)
\* re.sub(r"\s+", " ", s)
CollapseWs(s) ==
    LET kept == SelectSeq([i \in 1..Len(s) |-> i],
                          LAMBDA i : ~(IsSpace(s[i]) /\ i > 1 /\ IsSpace(s[i - 1])))
    IN AsSeq([j \in 1..Len(kept) |-> IF IsSpace(s[kept[j]]) THEN " " ELSE s[kept[j]]])

\* str.strip(chars)
Strip(s, chars) ==
    LET keep == {i \in 1..Len(s) : s[i] \notin chars}
    IN IF keep = {} THEN <<>>
       ELSE SubSeq(s, CHOOSE i \in keep : \A h \in keep : i <= h,
                      CHOOSE i \in keep : \A h \in keep : i >= h)

PostProcess(capture) == Strip(CollapseWs(capture), {" ", ".", NL, TAB})

\* extract_field were the first alternative that matches to decide alone
RECURSIVE extract_field_first_match(_, _)
extract_field_first_match(t, patterns) ==
    IF patterns = <<>> THEN <<>>
    ELSE LET m == Search(t, Head(patterns))
         IN IF m # <<>> THEN PostProcess(m)
            ELSE extract_field_first_match(t, Tail(patterns))

\* Optional[str]: None is <<>>, which is returned for no other value (line 99)
RECURSIVE extract_field(_, _)
extract_field(t, patterns) ==
    IF patterns = <<>> THEN <<>>
    ELSE LET m == Search(t, Head(patterns))
             value == PostProcess(m)
         IN IF m # <<>> /\ value # <<>>
            THEN value
            ELSE extract_field(t, Tail(patterns))

(***************************************************************************)
(* Natural numbers of any size, as their decimal digits, least significant *)
(* digit first and no leading zero (zero is <<>>): the numerals of a       *)
(* document are not bounded by a machine word, and Python's float() reads  *)
(* every digit of them.                                                    *)
(***************************************************************************)
DigitVal ==
    ("0" :> 0) @@ ("1" :> 1) @@ ("2" :> 2) @@ ("3" :> 3) @@ ("4" :> 4) @@
    ("5" :> 5) @@ ("6" :> 6) @@ ("7" :> 7) @@ ("8" :> 8) @@ ("9" :> 9)

RECURSIVE NatNorm(_)
NatNorm(x) ==
    IF x # <<>> /\ x[Len(x)] = 0 THEN NatNorm(SubSeq(x, 1, Len(x) - 1)) ELSE x

\* the number written by the digit atoms ds (most significant first)
NatOfDigits(ds) ==
    NatNorm(AsSeq([i \in 1..Len(ds) |-> DigitVal[ds[Len(ds) + 1 - i]]]))

\* x with zeros appended up to n digits
NatPad(x, n) == AsSeq([i \in 1..n |-> IF i <= Len(x) THEN x[i] ELSE 0])

\* the low i digits of x write a smaller number than the low i digits of y
\* (x and y of the same length)
LowLt(x, y, i) ==
    LET D == {j \in 1..i : x[j] # y[j]}
    IN D # {} /\ LET m == CHOOSE j \in D : \A h \in D : j >= h IN x[m] < y[m]

\* x < y
NatLt(x, y) == IF Len(x) # Len(y) THEN Len(x) < Len(y) ELSE LowLt(x, y, Len(x))

\* 2 * x : the carry into a digit is 1 exactly when the digit below is >= 5
NatDbl(x) ==
    NatNorm(AsSeq([i \in 1..(Len(x) + 1) |->
                ((IF i <= Len(x) THEN 2 * x[i] ELSE 0)
                 + (IF i > 1 /\ x[i - 1] >= 5 THEN 1 ELSE 0)) % 10]))

\* x - y, for x >= y : a digit borrows exactly when the digits below it write
\* a smaller number in x than in y
NatSub(x, y) ==
    LET yy == NatPad(y, Len(x))
    IN NatNorm(AsSeq([i \in 1..Len(x) |->
                   (x[i] - yy[i] - (IF LowLt(x, yy, i - 1) THEN 1 ELSE 0)) % 10]))

\* x * 10^k
NatShift10(x, k) == IF x = <<>> THEN <<>> ELSE AsSeq([i \in 1..k |-> 0]) \o x

(***************************************************************************)
(* IEEE-754 binary64, the float of Python.  A finite non-negative double   *)
(* is zero or m * 2^(e - 52) with the 53-bit significand                   *)
(* m = hi * 2^27 + lo, 2^25 <= hi < 2^26, 0 <= lo < 2^27.  An exact result *)
(* before rounding carries q, the discarded part in quarters of the last   *)
(* place: 0 none, 1 below half, 2 half, 3 above half.                      *)
(***************************************************************************)
MantBits == 53
LoBits == (MantBits + 1) \div 2
HiBits == MantBits - LoBits
TwoLo == 2 ^ LoBits
TwoHi == 2 ^ HiBits

DZero == [zero |-> TRUE, e |-> 0, hi |-> 0, lo |-> 0]

\* round to nearest, ties to even
RoundNearestEven(e, hi, lo, q) ==
    LET up == q = 3 \/ (q = 2 /\ lo % 2 = 1)
        lo1 == IF up THEN lo + 1 ELSE lo
        hi1 == IF lo1 = TwoLo THEN hi + 1 ELSE hi
    IN IF hi1 = TwoHi
       THEN [zero |-> FALSE, e |-> e + 1, hi |-> TwoHi \div 2, lo |-> 0]
       ELSE [zero |-> FALSE, e |-> e, hi |-> hi1, lo |-> lo1 % TwoLo]

\* the first n binary digits of the fraction r / b (r < b), as a number, and
\* the remainder; they are all 0 once nothing remains
RECURSIVE Bits(_, _, _)
Bits(r, b, n) ==
    IF n = 0 \/ r = <<>> THEN <<0, r>>
    ELSE LET r2 == NatDbl(r)
         IN IF NatLt(r2, b) THEN Bits(r2, b, n - 1)
            ELSE LET rest == Bits(NatSub(r2, b), b, n - 1)
                 IN <<2 ^ (n - 1) + rest[1], rest[2]>>

\* a / b scaled into [1, 2): <<a', b', e>> with a / b = (a' / b') * 2^e
RECURSIVE Scale(_, _, _)
Scale(a, b, e) ==
    IF NatLt(a, b) THEN Scale(NatDbl(a), b, e - 1)
    ELSE IF ~NatLt(a, NatDbl(b)) THEN Scale(a, NatDbl(b), e + 1)
    ELSE <<a, b, e>>

\* float(s) of the numeral s = n / 10^k: the double nearest to it (CPython's
\* float() is correctly rounded)
ToDouble(n, k) ==
    IF n = <<>> THEN DZero
    ELSE LET sc == Scale(n, NatShift10(<<1>>, k), 0)
             h == Bits(NatSub(sc[1], sc[2]), sc[2], HiBits - 1)
             l == Bits(h[2], sc[2], LoBits)
             g == Bits(l[2], sc[2], 1)
         IN RoundNearestEven(sc[3], TwoHi \div 2 + h[1], l[1],
                             2 * g[1] + (IF g[2] = <<>> THEN 0 ELSE 1))

\* x * 1.5 : x + x / 2 exactly, then rounded
Times1_5(x) ==
    IF x.zero THEN DZero
    ELSE LET half == x.lo % 2
             lo2 == (x.hi % 2) * (TwoLo \div 2) + x.lo \div 2
             slo == (x.lo + lo2) % TwoLo
             shi == x.hi + x.hi \div 2 + (x.lo + lo2) \div TwoLo
         IN IF shi < TwoHi
            THEN RoundNearestEven(x.e, shi, slo, 2 * half)
            ELSE RoundNearestEven(x.e + 1, shi \div 2,
                                  (shi % 2) * (TwoLo \div 2) + slo \div 2,
                                  2 * (slo % 2) + half)

\* x < y on doubles
DLt(x, y) ==
    IF y.zero THEN FALSE
    ELSE IF x.zero THEN TRUE
    ELSE IF x.e # y.e THEN x.e < y.e
    ELSE IF x.hi # y.hi THEN x.hi < y.hi
    ELSE x.lo < y.lo

(***************************************************************************)
(* parse_currency                                                          *)
(***************************************************************************)
\* the position of the first atom of value from i on that is a digit, 0 if none
FirstDigit(value, i) ==
    IF \E j \in i..Len(value) : IsDigit(value[j])
    THEN CHOOSE j \in i..Len(value) :
            IsDigit(value[j]) /\ \A h \in i..(j - 1) : ~IsDigit(value[h])
    ELSE 0

\* group(1) of re.search(r"([0-9][0-9,]*(?:\.[0-9]+)?)", value), as
\* <<integer part with its commas, fraction digits>>; called with a match
NumericToken(value) ==
    LET i == FirstDigit(value, 1)
        e1 == RunEnd(value, i + 1, "digitcomma")
        frac == e1 + 1 <= Len(value) /\ value[e1] = "." /\ IsDigit(value[e1 + 1])
        e2 == IF frac THEN RunEnd(value, e1 + 1, "digit") ELSE e1
    IN <<SubSeq(value, i, e1 - 1), SubSeq(value, e1 + 1, e2 - 1)>>

\* str.replace(",", "")
RemoveCommas(s) == SelectSeq(s, LAMBDA a : a # ",")

NoValue == [some |-> FALSE, n |-> <<>>, k |-> 0, d |-> DZero]

\* Optional[float]: some = FALSE is None; d is the float returned, n / 10^k
\* the number the matched numeral writes
parse_currency(value) ==
    IF value = <<>> THEN NoValue
    ELSE IF FirstDigit(value, 1) = 0 THEN NoValue
    ELSE LET tok == NumericToken(value)
             n == NatOfDigits(RemoveCommas(tok[1]) \o tok[2])
             k == Len(tok[2])
         IN [some |-> TRUE, n |-> n, k |-> k, d |-> ToDouble(n, k)]

(***************************************************************************)
(* The extracted fields: Dict[str, str] as a function from the names of    *)
(* the fields found to their values.                                       *)
(***************************************************************************)
\* fields.get(k, "") and fields.get(k) where None and "" are treated alike
Get(fields, k) == IF k \in DOMAIN fields THEN fields[k] ELSE <<>>

\* s.strip().lower() as one string
StripLower(s) == Str(LowerSeq(Strip(s, {" ", NL, CR, TAB})))

ISSUE_ESTIMATE == "Initial estimate is significantly higher than estimated damage."
ISSUE_ASSET == "Injury claim has missing/invalid asset type."

(***************************************************************************)
(* detect_inconsistencies                                                  *)
(***************************************************************************)
\* initial_estimate > estimated_damage * 1.5, on floats
EstimateTooHigh(estimated_damage, initial_estimate) ==
    DLt(Times1_5(estimated_damage.d), initial_estimate.d)

InvalidAssetTypes == {"", "n/a", "none"}

\* detect_inconsistencies were an absent asset type not to count as invalid
detect_inconsistencies_asset_given(fields) ==
    LET estimated_damage == parse_currency(Get(fields, "estimatedDamage"))
        initial_estimate == parse_currency(Get(fields, "initialEstimate"))
        first == IF /\ estimated_damage.some
                    /\ initial_estimate.some
                    /\ EstimateTooHigh(estimated_damage, initial_estimate)
                 THEN <<ISSUE_ESTIMATE>> ELSE <<>>
        second == IF /\ StripLower(Get(fields, "claimType")) = "injury"
                     /\ "assetType" \in DOMAIN fields
                     /\ StripLower(Get(fields, "assetType")) \in InvalidAssetTypes
                  THEN <<ISSUE_ASSET>> ELSE <<>>
    IN first \o second

detect_inconsistencies(fields) ==
    LET estimated_damage == parse_currency(Get(fields, "estimatedDamage"))
        initial_estimate == parse_currency(Get(fields, "initialEstimate"))
        first == IF /\ estimated_damage.some
                    /\ initial_estimate.some
                    /\ EstimateTooHigh(estimated_damage, initial_estimate)
                 THEN <<ISSUE_ESTIMATE>> ELSE <<>>
        second == IF /\ StripLower(Get(fields, "claimType")) = "injury"
                     /\ StripLower(Get(fields, "assetType")) \in InvalidAssetTypes
                  THEN <<ISSUE_ASSET>> ELSE <<>>
    IN first \o second

(***************************************************************************)
(* recommend_route                                                         *)
(***************************************************************************)
INVESTIGATION == "Investigation Flag"
MANUAL == "Manual review"
SPECIALIST == "Specialist Queue"
FAST_TRACK == "Fast-track"

REASON_FRAUD == "Description contains potential fraud indicators."
REASON_MISSING == "One or more mandatory fields are missing."
REASON_INJURY == "Claim type is injury and requires specialist handling."
REASON_FAST == "Estimated damage is below 25,000 threshold."
REASON_DEFAULT == "Claim does not qualify for fast-track based on current rules."

FraudWords == {"fraud", "inconsistent", "staged"}

\* re.search(r"\b(fraud|inconsistent|staged)\b", description, re.IGNORECASE)
HasFraudWord(description) ==
    \E i \in 1..Len(description) :
        /\ Lower(description[i]) \in FraudWords
        /\ i = 1 \/ ~IsWordAtom(description[i - 1])
        /\ i = Len(description) \/ ~IsWordAtom(description[i + 1])

FastTrackLimit == 25000

\* the decimal digits of a natural number, least significant first
RECURSIVE NatOfInt(_)
NatOfInt(n) == IF n = 0 THEN <<>> ELSE <<n % 10>> \o NatOfInt(n \div 10)

\* the int 25000 as the float it is compared as
FastTrackLimitFloat == ToDouble(NatOfInt(FastTrackLimit), 0)

\* estimated_damage < 25000, a float against an int
BelowLimit(estimated_damage) == DLt(estimated_damage.d, FastTrackLimitFloat)

\* recommend_route were the missing fields to come before the fraud words
recommend_route_missing_first(fields, missing) ==
    LET description == Get(fields, "incidentDescription")
        claim_type == StripLower(Get(fields, "claimType"))
        estimated_damage == parse_currency(Get(fields, "estimatedDamage"))
    IN IF missing # <<>> THEN <<MANUAL, REASON_MISSING>>
       ELSE IF HasFraudWord(description) THEN <<INVESTIGATION, REASON_FRAUD>>
       ELSE IF claim_type = "injury" THEN <<SPECIALIST, REASON_INJURY>>
       ELSE IF estimated_damage.some /\ BelowLimit(estimated_damage)
            THEN <<FAST_TRACK, REASON_FAST>>
       ELSE <<MANUAL, REASON_DEFAULT>>

\* recommend_route were the injury claims to come before the fraud words
recommend_route_injury_first(fields, missing) ==
    LET description == Get(fields, "incidentDescription")
        claim_type == StripLower(Get(fields, "claimType"))
        estimated_damage == parse_currency(Get(fields, "estimatedDamage"))
    IN IF claim_type = "injury" THEN <<SPECIALIST, REASON_INJURY>>
       ELSE IF HasFraudWord(description) THEN <<INVESTIGATION, REASON_FRAUD>>
       ELSE IF missing # <<>> THEN <<MANUAL, REASON_MISSING>>
       ELSE IF estimated_damage.some /\ BelowLimit(estimated_damage)
            THEN <<FAST_TRACK, REASON_FAST>>
       ELSE <<MANUAL, REASON_DEFAULT>>

\* recommend_route were the injury claims to come before the missing fields
recommend_route_injury_second(fields, missing) ==
    LET description == Get(fields, "incidentDescription")
        claim_type == StripLower(Get(fields, "claimType"))
        estimated_damage == parse_currency(Get(fields, "estimatedDamage"))
    IN IF HasFraudWord(description) THEN <<INVESTIGATION, REASON_FRAUD>>
       ELSE IF claim_type = "injury" THEN <<SPECIALIST, REASON_INJURY>>
       ELSE IF missing # <<>> THEN <<MANUAL, REASON_MISSING>>
       ELSE IF estimated_damage.some /\ BelowLimit(estimated_damage)
            THEN <<FAST_TRACK, REASON_FAST>>
       ELSE <<MANUAL, REASON_DEFAULT>>

\* Tuple[str, str]
recommend_route(fields, missing) ==
    LET description == Get(fields, "incidentDescription")
        claim_type == StripLower(Get(fields, "claimType"))
        estimated_damage == parse_currency(Get(fields, "estimatedDamage"))
    IN IF HasFraudWord(description) THEN <<INVESTIGATION, REASON_FRAUD>>
       ELSE IF missing # <<>> THEN <<MANUAL, REASON_MISSING>>
       ELSE IF claim_type = "injury" THEN <<SPECIALIST, REASON_INJURY>>
       ELSE IF estimated_damage.some /\ BelowLimit(estimated_damage)
            THEN <<FAST_TRACK, REASON_FAST>>
       ELSE <<MANUAL, REASON_DEFAULT>>

(***************************************************************************)
(* process_document, statement by statement                                *)
(***************************************************************************)
\* the extraction loop of lines 153-157
ExtractAll(t) ==
    LET values == {<<f, extract_field(t, FIELD_PATTERNS[f])>> : f \in DOMAIN FIELD_PATTERNS}
        found == {v \in values : v[2] # <<>>}
    IN [f \in {v[1] : v \in found} |-> (CHOOSE v \in found : v[1] = f)[2]]

\* the missing fields were every field of FIELD_PATTERNS mandatory
MissingOfAllFields(fields) == SelectSeq(FIELD_ORDER, LAMBDA f : f \notin DOMAIN fields)

\* [field for field in MANDATORY_FIELDS if field not in extracted]
MissingOf(fields) == SelectSeq(MANDATORY_FIELDS, LAMBDA f : f \notin DOMAIN fields)

\* " ".join(parts)
RECURSIVE JoinSpace(_)
JoinSpace(parts) ==
    IF parts = <<>> THEN ""
    ELSE IF Len(parts) = 1 THEN parts[1]
    ELSE parts[1] \o " " \o JoinSpace(Tail(parts))

(***************************************************************************)
(* The documents.  A document is written slot by slot; a slot holds the    *)
(* line (or lines, or nothing) the author wrote for one entry of the form. *)
(* The first variant of every slot is the entry of a complete low-value    *)
(* claim (all mandatory fields, claim type Auto, damage 12,500, initial    *)
(* estimate 13,000); a document departs from it in at most MaxEdits slots. *)
(* The last two slots are the line ending of the file and whether its last *)
(* line is terminated.                                                     *)
(***************************************************************************)
MaxEdits == 2

Lab1(a) == <<a, ":", " ">>
Lab2(a, b) == <<a, " ", b, ":", " ">>

Absent == <<>>
One(line) == <<line>>
Two(l1, l2) == <<l1, l2>>

AssetLine(v) == Lab2("Asset", "Type") \o v
TypeLine(v) == Lab2("Claim", "Type") \o v
DamageLine(v) == Lab2("Estimated", "Damage") \o v
InitialLine(v) == Lab2("Initial", "Estimate") \o v
DescriptionLine(v) == Lab2("Incident", "Description") \o v

Slots ==
    << \* policyNumber
       <<One(Lab2("Policy", "Number") \o <<"ABC", "-", "1", "2", "3">>),
         Absent,
         One(<<"policy", " ", "no", ".", ":", " ", "abc", "-", "9", " ", "x">>)>>,
       \* policyholderName
       <<One(Lab2("Policyholder", "Name") \o <<"John", " ", "Doe">>),
         Absent,
         One(Lab2("Policyholder", "Name") \o <<".">>),
         One(Lab2("Insured", "Name") \o <<"Jane", " ", "Roe">>),
         Two(Lab2("Insured", "Name") \o <<"Jane", " ", "Roe">>,
             Lab2("Policyholder", "Name") \o <<"John", " ", "Doe">>),
         Two(Lab2("Insured", "Name") \o <<"Jane", " ", "Roe">>,
             Lab2("Policyholder", "Name") \o <<".">>)>>,
       \* effectiveDates
       <<One(Lab2("Effective", "Dates") \o <<"1", " ", "May">>)>>,
       \* incidentDate
       <<One(Lab2("Incident", "Date") \o <<"5", " ", "May">>)>>,
       \* incidentTime
       <<One(Lab2("Incident", "Time") \o <<"9", " ", "am">>)>>,
       \* incidentLocation
       <<One(Lab2("Incident", "Location") \o <<"Main", " ", "Street">>)>>,
       \* incidentDescription
       <<One(DescriptionLine(<<"Rear", " ", "bumper", " ", "dent", ".">>)),
         Absent,
         One(DescriptionLine(<<"Claim", " ", "appears", " ", "staged", ".">>)),
         One(DescriptionLine(<<"possible", " ", "Fraud", "!">>)),
         One(DescriptionLine(<<"in", "fraud", " ", "un", "staged">>)),
         Two(DescriptionLine(<<"Rear", " ", "dent", ",">>),
             <<"story", " ", "inconsistent", ".">>)>>,
       \* claimant
       <<One(Lab1("Claimant") \o <<"John", " ", "Doe">>),
         Absent>>,
       \* thirdParties
       <<One(Lab2("Third", "Parties") \o <<"None">>),
         Absent>>,
       \* contactDetails
       <<One(Lab2("Contact", "Details") \o <<"5", "5", "5">>),
         One(Lab1("Phone") \o <<"5", "5", "5">>)>>,
       \* assetType and claimType: what is claimed for, and the kind of claim
       <<Two(AssetLine(<<"Car">>), TypeLine(<<"Auto">>)),
         Absent,
         One(TypeLine(<<"Auto">>)),
         Two(AssetLine(<<"N", "/", "A">>), TypeLine(<<"Auto">>)),
         One(AssetLine(<<"Car">>)),
         Two(AssetLine(<<"Car">>), TypeLine(<<"injury">>)),
         Two(AssetLine(<<"Car">>), TypeLine(<<"INJURY", " ">>)),
         One(TypeLine(<<"injury">>)),
         Two(AssetLine(<<"N", "/", "A">>), TypeLine(<<"Injury">>)),
         Two(AssetLine(<<"none", ".">>), TypeLine(<<"injury">>)),
         Two(<<"Asset", " ", "Type", ":">>, TypeLine(<<"injury">>))>>,
       \* assetId
       <<One(Lab2("Asset", "ID") \o <<"XY", "7">>),
         One(<<"Registration", " ", "No", ".", ":", " ", "XY", "7">>)>>,
       \* estimatedDamage
       <<One(DamageLine(<<"1", "2", ",", "5", "0", "0">>)),
         Absent,
         One(DamageLine(<<"1", "0", ",", "0", "0", "0">>)),
         One(DamageLine(<<"2", "5", ",", "0", "0", "0">>)),
         One(DamageLine(<<"$", "2", "4", ",", "9", "9", "9", ".", "9", "9">>)),
         One(DamageLine(<<"USD", " ", "3", "0", "0", "0", "0">>)),
         One(DamageLine(<<"0", ".", "9">>)),
         One(DamageLine(<<"TBD">>))>>,
       \* attachments
       <<One(Lab1("Attachments") \o <<"photo">>)>>,
       \* initialEstimate
       <<One(InitialLine(<<"1", "3", ",", "0", "0", "0">>)),
         Absent,
         One(InitialLine(<<"2", "0", ",", "0", "0", "0">>)),
         One(InitialLine(<<"1", "5", ",", "0", "0", "0">>)),
         One(InitialLine(<<"1", ".", "3", "5">>)),
         One(InitialLine(<<"1", ".", "3", "5", "0", "0", "0", "0", "0", "0", "0",
                           "0", "0", "0", "0", "0", "0", "1">>)),
         One(InitialLine(<<"TBD">>))>>,
       \* the line ending: \n, \r\n, \r
       <<<<NL>>, <<CR, NL>>, <<CR>>>>,
       \* the end of the last line: terminated or not
       <<TRUE, FALSE>> >>

NLineSlots == Len(Slots) - 2
EolSlot == NLineSlots + 1
EndSlot == NLineSlots + 2

\* the sets of at most n slots
RECURSIVE SlotSets(_)
SlotSets(n) ==
    IF n = 0 THEN {{}}
    ELSE LET P == SlotSets(n - 1)
         IN P \cup {p \cup {x} : p \in P, x \in 1..Len(Slots)}

\* the choices of a variant for every slot that depart from the first variant
\* in at most MaxEdits slots
Picks ==
    LET most == CHOOSE m \in {Len(Slots[x]) : x \in 1..Len(Slots)} :
                    \A x \in 1..Len(Slots) : Len(Slots[x]) <= m
    IN UNION {
        {[x \in 1..Len(Slots) |-> IF x \in E THEN v[x] ELSE 1] :
            v \in {w \in [E -> 2..most] : \A x \in E : w[x] <= Len(Slots[x])}}
        : E \in SlotSets(MaxEdits)}

\* the lines of the slots from x on
RECURSIVE LinesFrom(_, _)
LinesFrom(pick, x) ==
    IF x > NLineSlots THEN <<>>
    ELSE Slots[x][pick[x]] \o LinesFrom(pick, x + 1)

\* the lines joined by the line ending
RECURSIVE JoinLines(_, _, _)
JoinLines(lines, eol, terminated) ==
    IF lines = <<>> THEN <<>>
    ELSE IF Len(lines) = 1
         THEN Head(lines) \o (IF terminated THEN eol ELSE <<>>)
         ELSE Head(lines) \o eol \o JoinLines(Tail(lines), eol, terminated)

DocumentOf(pick) ==
    JoinLines(LinesFrom(pick, 1), Slots[EolSlot][pick[EolSlot]],
              Slots[EndSlot][pick[EndSlot]])

(***************************************************************************)
(* The state: the document read and the local variables of                 *)
(* process_document; pc is the statement to execute next.                  *)
(***************************************************************************)
VARIABLES document, pc, text, extracted, missing_fields, inconsistencies,
          route, base_reason, reasoning, result

vars == <<document, pc, text, extracted, missing_fields, inconsistencies,
          route, base_reason, reasoning, result>>

\* a local not yet assigned
Unset == "unset"
NoResult == [extractedFields |-> <<>>, missingFields |-> <<>>,
             recommendedRoute |-> Unset, reasoning |-> Unset]

Init ==
    /\ document \in {DocumentOf(pick) : pick \in Picks}
    /\ pc = "normalize"
    /\ text = <<>>
    /\ extracted = <<>>
    /\ missing_fields = <<>>
    /\ inconsistencies = <<>>
    /\ route = Unset
    /\ base_reason = Unset
    /\ reasoning = Unset
    /\ result = NoResult

\* line 151: text = normalize(read_document(path))
Normalize ==
    /\ pc = "normalize"
    /\ text' = normalize(document)
    /\ pc' = "extract"
    /\ UNCHANGED <<document, extracted, missing_fields, inconsistencies, route,
                   base_reason, reasoning, result>>

\* lines 153-157
ExtractFields ==
    /\ pc = "extract"
    /\ extracted' = ExtractAll(text)
    /\ pc' = "missing"
    /\ UNCHANGED <<document, text, missing_fields, inconsistencies, route,
                   base_reason, reasoning, result>>

\* line 159
ComputeMissing ==
    /\ pc = "missing"
    /\ missing_fields' = MissingOf(extracted)
    /\ pc' = "detect"
    /\ UNCHANGED <<document, text, extracted, inconsistencies, route,
                   base_reason, reasoning, result>>

\* line 160
DetectInconsistencies ==
    /\ pc = "detect"
    /\ inconsistencies' = detect_inconsistencies(extracted)
    /\ pc' = "route"
    /\ UNCHANGED <<document, text, extracted, missing_fields, route,
                   base_reason, reasoning, result>>

\* line 162
RecommendRoute ==
    /\ pc = "route"
    /\ LET r == recommend_route(extracted, missing_fields)
       IN route' = r[1] /\ base_reason' = r[2]
    /\ pc' = "override"
    /\ UNCHANGED <<document, text, extracted, missing_fields, inconsistencies,
                   reasoning, result>>

\* the route were the override to spare the Investigation Flag
OverriddenUnlessFlagged(r, issues) ==
    IF issues # <<>> /\ r # INVESTIGATION THEN MANUAL ELSE r

\* the route after lines 163-164
Overridden(r, issues) == IF issues # <<>> THEN MANUAL ELSE r

\* lines 163-164
OverrideRoute ==
    /\ pc = "override"
    /\ route' = Overridden(route, inconsistencies)
    /\ pc' = "reasoning"
    /\ UNCHANGED <<document, text, extracted, missing_fields, inconsistencies,
                   base_reason, reasoning, result>>

\* reasoning_parts were the issues to replace the base reason
ReasoningPartsIssuesOnly(base, issues) ==
    IF issues # <<>>
    THEN <<"Inconsistencies detected: " \o JoinSpace(issues)>>
    ELSE <<base>>

\* reasoning_parts of lines 166-168
ReasoningParts(base, issues) ==
    IF issues # <<>>
    THEN <<base, "Inconsistencies detected: " \o JoinSpace(issues)>>
    ELSE <<base>>

\* lines 166-168 and the join of line 174
BuildReasoning ==
    /\ pc = "reasoning"
    /\ reasoning' = JoinSpace(ReasoningParts(base_reason, inconsistencies))
    /\ pc' = "return"
    /\ UNCHANGED <<document, text, extracted, missing_fields, inconsistencies,
                   route, base_reason, result>>

\* lines 170-175
ReturnResult ==
    /\ pc = "return"
    /\ result' = [extractedFields |-> extracted, missingFields |-> missing_fields,
                  recommendedRoute |-> route, reasoning |-> reasoning]
    /\ pc' = "done"
    /\ UNCHANGED <<document, text, extracted, missing_fields, inconsistencies,
                   route, base_reason, reasoning>>

Next ==
    \/ Normalize
    \/ ExtractFields
    \/ ComputeMissing
    \/ DetectInconsistencies
    \/ RecommendRoute
    \/ OverrideRoute
    \/ BuildReasoning
    \/ ReturnResult

Spec == Init /\ [][Next]_vars

(***************************************************************************)
(* The properties.  They are stated on the result process_document         *)
(* returns, or on its local variables right after the statement they are   *)
(* about.                                                                  *)
(***************************************************************************)
Done == pc = "done"

\* the fields of the returned result
Returned == result.extractedFields

\* what detect_inconsistencies returned for the extracted fields (line 160)
Issues == inconsistencies

\* the incident description holds a fraud word as a whole word
Fraudulent(fields) == HasFraudWord(Get(fields, "incidentDescription"))

\* the claim type, trimmed and lower-cased, is injury
Injury(fields) == StripLower(Get(fields, "claimType")) = "injury"

\* the estimated damage parses to a magnitude strictly below 25000
LowDamage(fields) ==
    LET d == parse_currency(Get(fields, "estimatedDamage"))
    IN d.some /\ BelowLimit(d)

\* s begins with the string p
StartsWith(s, p) == Len(s) >= Len(p) /\ SubSeq(s, 1, Len(p)) = p

\* x > 1.5 * y, exactly, on doubles: with D = x.e - y.e + 1 it is
\* m_x * 2^D > 3 * m_y, where 2^52 <= m_x, m_y < 2^53 decide it for every D
\* but 1 and 2
DoubleExceedsOneAndHalf(x, y) ==
    IF x.zero THEN FALSE
    ELSE IF y.zero THEN TRUE
    ELSE LET D == x.e - y.e + 1
             xl == (2 ^ D) * x.lo
             xh == (2 ^ D) * x.hi + xl \div TwoLo
             yl == 3 * y.lo
             yh == 3 * y.hi + yl \div TwoLo
         IN IF D <= 0 THEN FALSE
            ELSE IF D >= 3 THEN TRUE
            ELSE xh > yh \/ (xh = yh /\ xl % TwoLo > yl % TwoLo)

\* x > 1.5 * y, exactly, on the numbers the numerals write: with
\* a = x.n * 10^y.k and b = y.n * 10^x.k it is 2 * a > 3 * b, that is
\* a >= b and 2 * (a - b) > b
WrittenExceedsOneAndHalf(x, y) ==
    LET a == NatShift10(x.n, y.k)
        b == NatShift10(y.n, x.k)
    IN ~NatLt(a, b) /\ NatLt(b, NatDbl(NatSub(a, b)))

\* "Greater than 1.5 times" can be read on the amounts as the document writes
\* them or on the magnitudes parse_currency returns for them, which are
\* doubles.  The properties below ask only for what the two readings agree on:
\* an initial estimate that exceeds in both readings, and one that exceeds in
\* neither.
SurelyExceeds(initial_estimate, estimated_damage) ==
    /\ WrittenExceedsOneAndHalf(initial_estimate, estimated_damage)
    /\ DoubleExceedsOneAndHalf(initial_estimate.d, estimated_damage.d)

PossiblyExceeds(initial_estimate, estimated_damage) ==
    \/ WrittenExceedsOneAndHalf(initial_estimate, estimated_damage)
    \/ DoubleExceedsOneAndHalf(initial_estimate.d, estimated_damage.d)

\* C1: whenever detect_inconsistencies returns a non-empty list for the
\* extracted fields, the route process_document returns is "Manual review",
\* whichever branch of the cascade fired.
C1_InconsistenciesForceManualReview ==
    Done => (Issues # <<>> => result.recommendedRoute = MANUAL)

\* C1: a document whose description holds a fraud word, so that the cascade
\* picked the Investigation Flag, and whose fields are inconsistent.
C1_FlaggedAndInconsistent ==
    Done /\ Fraudulent(Returned) /\ base_reason = REASON_FRAUD /\ Issues # <<>>

\* C2: recommend_route returns the route and the reason of the first condition
\* that holds, in the order fraud word, missing fields, injury, damage below
\* 25000, otherwise; a later branch is never chosen when an earlier condition
\* holds.  Stated on the locals route and base_reason right after line 162.
C2_CascadeOrder ==
    pc = "override" =>
        LET got == <<route, base_reason>>
            c1 == Fraudulent(extracted)
            c2 == missing_fields # <<>>
            c3 == Injury(extracted)
            c4 == LowDamage(extracted)
        IN /\ c1 => got = <<INVESTIGATION, REASON_FRAUD>>
           /\ ~c1 /\ c2 => got = <<MANUAL, REASON_MISSING>>
           /\ ~c1 /\ ~c2 /\ c3 => got = <<SPECIALIST, REASON_INJURY>>
           /\ ~c1 /\ ~c2 /\ ~c3 /\ c4 => got = <<FAST_TRACK, REASON_FAST>>
           /\ ~c1 /\ ~c2 /\ ~c3 /\ ~c4 => got = <<MANUAL, REASON_DEFAULT>>

\* C2: recommend_route has returned for fields where the first two conditions
\* of the cascade hold together and the fourth as well.
C2_SeveralConditionsHold ==
    /\ pc = "override"
    /\ Fraudulent(extracted)
    /\ missing_fields # <<>>
    /\ LowDamage(extracted)

\* the position of a field in MANDATORY_FIELDS
MandatoryIndex(f) ==
    CHOOSE i \in 1..Len(MANDATORY_FIELDS) : MANDATORY_FIELDS[i] = f

\* C3: missingFields holds exactly the mandatory fields that are no key of
\* extractedFields, each once, in the order of MANDATORY_FIELDS; there are 15
\* mandatory fields and thirdParties, which is none of them, is never listed.
C3_MissingFields ==
    Done =>
        LET m == result.missingFields
            mandatory == {MANDATORY_FIELDS[i] : i \in 1..Len(MANDATORY_FIELDS)}
        IN /\ Cardinality(mandatory) = 15
           /\ "thirdParties" \notin mandatory
           /\ \A i \in 1..Len(m) : m[i] \in mandatory /\ m[i] \notin DOMAIN Returned
           /\ \A f \in mandatory :
                f \notin DOMAIN Returned => \E i \in 1..Len(m) : m[i] = f
           /\ \A i, j \in 1..Len(m) :
                i < j => MandatoryIndex(m[i]) < MandatoryIndex(m[j])
           /\ \A i \in 1..Len(m) : m[i] # "thirdParties"

\* C3: a result for a document without the third parties entry and without
\* two mandatory entries.
C3_ThirdPartiesAbsentTwoMissing ==
    /\ Done
    /\ "thirdParties" \notin DOMAIN Returned
    /\ Len(result.missingFields) >= 2

\* the capture groups of the alternatives of a field, each of the leftmost
\* match of its alternative in the text; <<>> for an alternative that does not
\* match
Captures(t, f) ==
    AsSeq([i \in 1..Len(FIELD_PATTERNS[f]) |-> Search(t, FIELD_PATTERNS[f][i])])

\* the captures post-processed: white space collapsed, then spaces, periods,
\* newlines and tabs stripped from both ends
Values(captures) ==
    AsSeq([i \in 1..Len(captures) |-> PostProcess(captures[i])])

\* the positions of a sequence that hold something
NonEmpty(seq) == {i \in 1..Len(seq) : seq[i] # <<>>}

\* the least number of a non-empty set of numbers
FirstOf(S) == CHOOSE i \in S : \A h \in S : i <= h

C5_Reasoning ==
    Done =>
        LET base == base_reason
            issues == Issues
            listed == IF Len(issues) = 1 THEN issues[1]
                      ELSE issues[1] \o " " \o issues[2]
        IN /\ issues \in {<<>>, <<ISSUE_ESTIMATE>>, <<ISSUE_ASSET>>,
                          <<ISSUE_ESTIMATE, ISSUE_ASSET>>}
           /\ result.reasoning =
                IF issues = <<>> THEN base
                ELSE base \o " " \o "Inconsistencies detected: " \o listed

\* C5: a result with both issues, for a route the cascade had set to the
\* Specialist Queue.
C5_BothIssuesOverridden ==
    /\ Done
    /\ Issues = <<ISSUE_ESTIMATE, ISSUE_ASSET>>
    /\ base_reason = REASON_INJURY
    /\ result.recommendedRoute = MANUAL

\* C6, as claimed: with every mandatory field present and a fraud word in the
\* incident description, the final route is the Investigation Flag whatever
\* the claim type and the estimated damage.
C6_FraudAlwaysFlagged ==
    Done =>
        (result.missingFields = <<>> /\ Fraudulent(Returned)
            => result.recommendedRoute = INVESTIGATION)

\* C6, amended: with every mandatory field present and a fraud word in the
\* incident description, the final route is the Investigation Flag whatever
\* the claim type and the estimated damage, unless detect_inconsistencies
\* reports an issue: then it is Manual review.
C6_FraudFlaggedUnlessInconsistent ==
    Done =>
        (result.missingFields = <<>> /\ Fraudulent(Returned)
            => result.recommendedRoute =
                 IF Issues = <<>> THEN INVESTIGATION ELSE MANUAL)

\* C6: a complete injury claim with a fraud word and no inconsistency.
C6_FraudulentInjuryClaim ==
    /\ Done
    /\ result.missingFields = <<>>
    /\ Fraudulent(Returned)
    /\ Injury(Returned)
    /\ Issues = <<>>

\* C7, as claimed: when a mandatory field is absent the final route is Manual
\* review and the reasoning begins with the missing-fields reason, whatever
\* the claim type and the estimated damage.
C7_MissingAlwaysManual ==
    Done =>
        (result.missingFields # <<>>
            => /\ result.recommendedRoute = MANUAL
               /\ StartsWith(result.reasoning, REASON_MISSING))

\* C7, amended: when a mandatory field is absent and the incident description
\* holds no fraud word, the final route is Manual review and the reasoning
\* begins with the missing-fields reason, whatever the claim type and the
\* estimated damage; with a fraud word the reasoning begins with the fraud
\* reason.
C7_MissingManualUnlessFraud ==
    Done =>
        (result.missingFields # <<>>
            => IF Fraudulent(Returned)
               THEN StartsWith(result.reasoning, REASON_FRAUD)
               ELSE /\ result.recommendedRoute = MANUAL
                    /\ StartsWith(result.reasoning, REASON_MISSING))

\* C7: an injury claim with a mandatory field absent and no fraud word.
C7_IncompleteInjuryClaim ==
    /\ Done
    /\ result.missingFields # <<>>
    /\ ~Fraudulent(Returned)
    /\ Injury(Returned)

\* C8: the initial-estimate issue is emitted if and only if the estimated
\* damage and the initial estimate both parse to magnitudes and the initial
\* estimate is strictly greater than 1.5 times the estimated damage (not at
\* exactly 1.5 times, not when a field is absent or holds no number); when it
\* is emitted the final route is Manual review.
C8_EstimateIssue ==
    Done =>
        LET estimated_damage == parse_currency(Get(Returned, "estimatedDamage"))
            initial_estimate == parse_currency(Get(Returned, "initialEstimate"))
            emitted == \E i \in 1..Len(Issues) : Issues[i] = ISSUE_ESTIMATE
            both == estimated_damage.some /\ initial_estimate.some
        IN /\ emitted => both /\ PossiblyExceeds(initial_estimate, estimated_damage)
           /\ both /\ SurelyExceeds(initial_estimate, estimated_damage) => emitted
           /\ emitted => result.recommendedRoute = MANUAL

\* the asset type is absent, empty after stripping, or n/a or none after
\* stripping and lower-casing
AssetTypeInvalid(fields) ==
    \/ "assetType" \notin DOMAIN fields
    \/ StripLower(fields["assetType"]) \in {"", "n/a", "none"}

\* C9: when the claim type, trimmed and lower-cased, is injury and the asset
\* type is absent or invalid, detect_inconsistencies emits the asset-type
\* issue and the final route is Manual review.
C9_InjuryWithoutAsset ==
    Done =>
        (Injury(Returned) /\ AssetTypeInvalid(Returned)
            => /\ \E i \in 1..Len(Issues) : Issues[i] = ISSUE_ASSET
               /\ result.recommendedRoute = MANUAL)

\* C9: a complete injury claim whose asset type reads N/A, which the cascade
\* had sent to the Specialist Queue.
C9_InjuryAssetNotApplicable ==
    /\ Done
    /\ Injury(Returned)
    /\ "assetType" \in DOMAIN Returned
    /\ AssetTypeInvalid(Returned)
    /\ base_reason = REASON_INJURY

\* C10: when the final route is Fast-track, no mandatory field is missing, the
\* description holds no fraud word, the claim type is not injury, the estimated
\* damage parses to a magnitude strictly below 25000, detect_inconsistencies
\* returned no issue (so the initial estimate, which is present, is not
\* greater than 1.5 times the estimated damage when it parses), and the
\* reasoning is exactly the fast-track reason.
C10_FastTrack ==
    Done =>
        (result.recommendedRoute = FAST_TRACK
            => LET estimated_damage == parse_currency(Get(Returned, "estimatedDamage"))
                   initial_estimate == parse_currency(Get(Returned, "initialEstimate"))
               IN /\ result.missingFields = <<>>
                  /\ ~Fraudulent(Returned)
                  /\ ~Injury(Returned)
                  /\ LowDamage(Returned)
                  /\ Issues = <<>>
                  /\ "initialEstimate" \in DOMAIN Returned
                  /\ initial_estimate.some =>
                        ~SurelyExceeds(initial_estimate, estimated_damage)
                  /\ result.reasoning = REASON_FAST)

====
